---------------------------- MODULE Spec2Model ----------------------------
(***************************************************************************)
(* Model of the contemplation plugin's gap extractor (lib/extractor.js):   *)
(* identifyGaps, normalizeText, stripContextBlocks, extractGapsFromText    *)
(* and the module-level pattern objects they share; of the model call of   *)
(* lib/reflect.js (callOllama); and of the plugin's hooks (index.js).      *)
(*                                                                         *)
(* Text is a string, read character by character with SubSeq.  Offsets     *)
(* are JavaScript's: offset i is "i characters consumed", the character    *)
(* at offset i is SubSeq(text, i + 1, i + 1).                              *)
(***************************************************************************)
EXTENDS Integers, Sequences, FiniteSets, TLC

VARIABLES
    messages,          \* the messages argument of the current call
    entropy,           \* the entropy argument, in tenths
    extractionConfig,  \* the extractionConfig argument
    lastIndex,         \* GAP_PATTERNS[k].lastIndex, shared by all calls
    pc,                \* "idle" | "called" | "returned" | "threw"
    result,            \* the gap records the last call returned
    atCall,            \* lastIndex as the current call found it
    ollama,            \* callOllama: "idle" | "fetching" | "parsing" | "returned" | "threw"
    timer,             \* the abort timer of callOllama: its delay while set
    res,               \* the response fetch resolved with
    reply,             \* what callOllama returned, or the message of its error
    helper,            \* the exported helper called directly, and its argument
    returned,          \* the string that call returned, undefined until it returns
    store,             \* state.store: the inquiries, each with its completed passes
    processing,        \* state.processing
    hook,              \* the heartbeat hook and the nightshift task runner: where
                       \* each stands, what nightshift said, what it has done
    queued,            \* the contemplation tasks queued with nightshift
    states,            \* the states Map: the entries of the agents other than 'main'
    files              \* of each inquiry of 'main': what the writer has written, and
                       \* what persistCompletedInsights logged of it last

extractorVars == <<messages, entropy, extractionConfig, lastIndex, pc, result, atCall>>

reflectVars == <<ollama, timer, res, reply>>

helperVars == <<helper, returned>>

pluginVars == <<store, processing, hook, queued, states, files>>

vars == <<extractorVars, reflectVars, helperVars, pluginVars>>

-----------------------------------------------------------------------------
(* Characters and strings                                                  *)

CharAt(text, i) == SubSeq(text, i + 1, i + 1)

Substring(text, from, to) == SubSeq(text, from + 1, to)

UpperToLower ==
    [A |-> "a", B |-> "b", C |-> "c", D |-> "d", E |-> "e", F |-> "f",
     G |-> "g", H |-> "h", I |-> "i", J |-> "j", K |-> "k", L |-> "l",
     M |-> "m", N |-> "n", O |-> "o", P |-> "p", Q |-> "q", R |-> "r",
     S |-> "s", T |-> "t", U |-> "u", V |-> "v", W |-> "w", X |-> "x",
     Y |-> "y", Z |-> "z"]

LowerChar(c) == IF c \in DOMAIN UpperToLower THEN UpperToLower[c] ELSE c

\* the characters at offsets lo..hi-1 in lower case (by halves, to keep
\* the recursion shallow)
RECURSIVE LowerIn(_, _, _)
LowerIn(text, lo, hi) ==
    IF hi <= lo THEN ""
    ELSE IF hi = lo + 1 THEN LowerChar(CharAt(text, lo))
    ELSE LET mid == (lo + hi) \div 2
         IN  LowerIn(text, lo, mid) \o LowerIn(text, mid, hi)

\* String.prototype.toLowerCase
toLowerCase(text) == LowerIn(text, 0, Len(text))

\* \s of a regular expression, and the white space trim() removes
IsSpace(c) == c \in {" ", "\t", "\n", "\r", "\f"}

IsLineTerminator(c) == c \in {"\n", "\r"}

IsDigit(c) == c \in {"0", "1", "2", "3", "4", "5", "6", "7", "8", "9"}

InClass(cls, c) ==
    CASE cls = "dot"   -> ~IsLineTerminator(c)          \* .
      [] cls = "any"   -> TRUE                          \* [\s\S]
      [] cls = "space" -> IsSpace(c)                    \* \s
      [] cls = "digit" -> IsDigit(c)                    \* \d
      [] cls = "upper" -> c \in DOMAIN UpperToLower     \* [A-Z]
      [] cls = "notnl" -> c # "\n"                      \* [^\n]
      [] cls = "term"  -> c \in {".", "!", "?"}         \* [.!?]

RECURSIVE TrimStartFrom(_, _)
TrimStartFrom(text, i) ==
    IF i < Len(text) /\ IsSpace(CharAt(text, i)) THEN TrimStartFrom(text, i + 1)
    ELSE i

RECURSIVE TrimEndFrom(_, _, _)
TrimEndFrom(text, from, to) ==
    IF to > from /\ IsSpace(CharAt(text, to - 1)) THEN TrimEndFrom(text, from, to - 1)
    ELSE to

\* String.prototype.trim
trim(text) ==
    LET from == TrimStartFrom(text, 0)
        to   == TrimEndFrom(text, from, Len(text))
    IN  Substring(text, from, to)

startsWith(text, prefix) ==
    Len(prefix) <= Len(text) /\ Substring(text, 0, Len(prefix)) = prefix

endsWith(text, suffix) ==
    Len(suffix) <= Len(text)
    /\ Substring(text, Len(text) - Len(suffix), Len(text)) = suffix

\* String.prototype.includes
includes(text, part) ==
    \E i \in 0..Len(text) :
        i + Len(part) <= Len(text) /\ Substring(text, i, i + Len(part)) = part

-----------------------------------------------------------------------------
(* Regular expressions: a node is a record, Ends gives the offsets at      *)
(* which a match of the node starting at offset i can end, in the order    *)
(* the backtracking matcher tries them (the first is the match).           *)

Lit(s)    == [t |-> "lit", s |-> s, ci |-> TRUE]      \* literal under flag i
LitCS(s)  == [t |-> "lit", s |-> s, ci |-> FALSE]     \* literal, case kept
Alt(rs)   == [t |-> "alt", rs |-> rs]                 \* (?:a|b|c)
Cat(rs)   == [t |-> "cat", rs |-> rs]
Opt(r)    == [t |-> "opt", r |-> r]                   \* (?:r)?
\* cls{min,max}, max = -1 for no upper limit
Greedy(cls, min, max) == [t |-> "rep", cls |-> cls, min |-> min, max |-> max, lazy |-> FALSE]
Lazy(cls, min, max)   == [t |-> "rep", cls |-> cls, min |-> min, max |-> max, lazy |-> TRUE]
Eol       == [t |-> "eol"]                            \* $ without flag m
Bol       == [t |-> "bol"]                            \* ^ without flag m
Ahead(r)  == [t |-> "ahead", r |-> r]                 \* (?=r)
Behind(cls) == [t |-> "behind", cls |-> cls]          \* (?<=[cls])

AltLit(ss) == Alt([k \in 1..Len(ss) |-> Lit(ss[k])])

LitMatches(re, text, i) ==
    /\ i + Len(re.s) <= Len(text)
    /\ \A k \in 0..(Len(re.s) - 1) :
           IF re.ci
           THEN LowerChar(CharAt(text, i + k)) = LowerChar(CharAt(re.s, k))
           ELSE CharAt(text, i + k) = CharAt(re.s, k)

\* how many characters of class cls lead the offsets lo..hi-1 (by halves)
RECURSIVE RunIn(_, _, _, _)
RunIn(cls, text, lo, hi) ==
    IF hi <= lo THEN 0
    ELSE IF hi = lo + 1 THEN (IF InClass(cls, CharAt(text, lo)) THEN 1 ELSE 0)
    ELSE LET mid  == (lo + hi) \div 2
             left == RunIn(cls, text, lo, mid)
         IN  IF left < mid - lo THEN left ELSE left + RunIn(cls, text, mid, hi)

\* how many characters of class cls follow offset i, at most max (-1: any)
RunLength(cls, text, i, max) ==
    LET hi == IF max = -1 \/ i + max > Len(text) THEN Len(text) ELSE i + max
    IN  RunIn(cls, text, i, hi)

RepEnds(re, text, i) ==
    LET n == RunLength(re.cls, text, i, re.max)
    IN  IF n < re.min THEN << >>
        ELSE IF re.lazy
             THEN [k \in 1..(n - re.min + 1) |-> i + re.min + k - 1]
             ELSE [k \in 1..(n - re.min + 1) |-> i + n - k + 1]

RECURSIVE Ends(_, _, _)
RECURSIVE AltEnds(_, _, _, _)
RECURSIVE CatEnds(_, _, _, _)
RECURSIVE CatFrom(_, _, _, _, _, _)

Ends(re, text, i) ==
    CASE re.t = "lit"    -> IF LitMatches(re, text, i) THEN <<i + Len(re.s)>> ELSE << >>
      [] re.t = "rep"    -> RepEnds(re, text, i)
      [] re.t = "alt"    -> AltEnds(re.rs, 1, text, i)
      [] re.t = "cat"    -> CatEnds(re.rs, 1, text, i)
      [] re.t = "opt"    -> Ends(re.r, text, i) \o <<i>>
      [] re.t = "eol"    -> IF i = Len(text) THEN <<i>> ELSE << >>
      [] re.t = "bol"    -> IF i = 0 THEN <<i>> ELSE << >>
      [] re.t = "ahead"  -> IF Ends(re.r, text, i) # << >> THEN <<i>> ELSE << >>
      [] re.t = "behind" -> IF i > 0 /\ InClass(re.cls, CharAt(text, i - 1))
                            THEN <<i>> ELSE << >>

AltEnds(rs, k, text, i) ==
    IF k > Len(rs) THEN << >>
    ELSE Ends(rs[k], text, i) \o AltEnds(rs, k + 1, text, i)

\* the ends of rs[k..] from each of starts[lo..hi], in order (by halves)
CatFrom(rs, k, text, starts, lo, hi) ==
    IF hi < lo THEN << >>
    ELSE IF hi = lo THEN CatEnds(rs, k, text, starts[lo])
    ELSE LET mid == (lo + hi) \div 2
         IN  CatFrom(rs, k, text, starts, lo, mid) \o CatFrom(rs, k, text, starts, mid + 1, hi)

CatEnds(rs, k, text, i) ==
    IF k > Len(rs) THEN <<i>>
    ELSE LET first == Ends(rs[k], text, i)
         IN  IF first = << >> THEN << >>
             ELSE CatFrom(rs, k + 1, text, first, 1, Len(first))

NoMatch == [found |-> FALSE, index |-> 0, end |-> 0]

\* the match at offset index, given the ends the matcher finds there
MatchAt(index, ends) ==
    IF ends # << >> THEN [found |-> TRUE, index |-> index, end |-> ends[1]]
    ELSE NoMatch

\* the leftmost of two searches
FirstFound(left, right) == IF left.found THEN left ELSE right

\* the leftmost match of re that starts at one of the offsets lo..hi (by
\* halves)
RECURSIVE SearchIn(_, _, _, _)
SearchIn(re, text, lo, hi) ==
    IF hi < lo THEN NoMatch
    ELSE IF hi = lo THEN MatchAt(lo, Ends(re, text, lo))
    ELSE FirstFound(SearchIn(re, text, lo, (lo + hi) \div 2),
                    SearchIn(re, text, (lo + hi) \div 2 + 1, hi))

\* the leftmost match of re at an offset >= from
SearchFrom(re, text, from) == SearchIn(re, text, from, Len(text))

\* RegExp.prototype.test of a pattern without flag g
test(re, text) == SearchFrom(re, text, 0).found

\* String.prototype.replace(re, by) with flag g: the text from offset from
\* on, m being the next match
RECURSIVE ReplaceAllFrom(_, _, _, _)
RECURSIVE ReplaceMatch(_, _, _, _, _)
ReplaceMatch(re, text, by, from, m) ==
    IF ~m.found THEN Substring(text, from, Len(text))
    ELSE Substring(text, from, m.index) \o by
         \o (IF m.end > m.index
             THEN ReplaceAllFrom(re, text, by, m.end)
             ELSE IF m.end < Len(text)
                  THEN CharAt(text, m.end) \o ReplaceAllFrom(re, text, by, m.end + 1)
                  ELSE "")

ReplaceAllFrom(re, text, by, from) ==
    ReplaceMatch(re, text, by, from, SearchFrom(re, text, from))

replaceAll(re, text, by) == ReplaceAllFrom(re, text, by, 0)

ReplaceFirstMatch(text, by, m) ==
    IF ~m.found THEN text
    ELSE Substring(text, 0, m.index) \o by \o Substring(text, m.end, Len(text))

\* String.prototype.replace(re, by) without flag g
replaceFirst(re, text, by) == ReplaceFirstMatch(text, by, SearchFrom(re, text, 0))

\* String.prototype.split(re): p is the end of the last separator; the
\* separator is tried at the offsets p..size-1 and one that ends at p is
\* passed over
RECURSIVE SplitFrom(_, _, _)
SplitAt(re, text, p, sep) ==
    IF ~sep.found THEN <<Substring(text, p, Len(text))>>
    ELSE <<Substring(text, p, sep.index)>> \o SplitFrom(re, text, sep.end)

PassOver(re, text, p, m) ==
    IF m.found /\ m.end = p THEN SearchIn(re, text, p + 1, Len(text) - 1) ELSE m

SplitFrom(re, text, p) ==
    SplitAt(re, text, p, PassOver(re, text, p, SearchIn(re, text, p, Len(text) - 1)))

split(re, text) ==
    IF Len(text) = 0
    THEN (IF Ends(re, text, 0) # << >> THEN << >> ELSE <<text>>)
    ELSE SplitFrom(re, text, 0)

\* the offset of the first "\n" among the offsets lo..hi-1, or -1 (by halves)
RECURSIVE NewlineIn(_, _, _)
NewlineIn(text, lo, hi) ==
    IF hi <= lo THEN -1
    ELSE IF hi = lo + 1 THEN (IF CharAt(text, lo) = "\n" THEN lo ELSE -1)
    ELSE LET mid  == (lo + hi) \div 2
             left == NewlineIn(text, lo, mid)
         IN  IF left # -1 THEN left ELSE NewlineIn(text, mid, hi)

\* String.prototype.split('\n')
RECURSIVE SplitLinesFrom(_, _)
SplitLinesFrom(text, p) ==
    LET q == NewlineIn(text, p, Len(text))
    IN  IF q = -1 THEN <<Substring(text, p, Len(text))>>
        ELSE <<Substring(text, p, q)>> \o SplitLinesFrom(text, q + 1)

splitLines(text) == SplitLinesFrom(text, 0)

\* Array.prototype.join
RECURSIVE JoinFrom(_, _, _)
JoinFrom(parts, sep, k) ==
    IF k > Len(parts) THEN ""
    ELSE IF k = Len(parts) THEN parts[k]
         ELSE parts[k] \o sep \o JoinFrom(parts, sep, k + 1)

join(parts, sep) == JoinFrom(parts, sep, 1)

-----------------------------------------------------------------------------
(* The pattern objects of the module                                       *)

Space1     == Greedy("space", 1, -1)                  \* \s+
UntilStop(n) == <<Lazy("dot", n, -1), Alt(<<Lit("."), Eol>>)>>   \* (.{n,}?)(?:\.|$)
Question   == <<Lit(" "), Greedy("dot", 10, -1), Lit("?")>>      \*  .{10,}\?

GAP_PATTERNS == <<
    \* /I wonder\s+(.{15,}?)(?:\.|$)/gi
    Cat(<<Lit("I wonder"), Space1>> \o UntilStop(15)),
    \* /I'm curious\s+(?:about\s+)?(.{15,}?)(?:\.|$)/gi
    Cat(<<Lit("I'm curious"), Space1, Opt(Cat(<<Lit("about"), Space1>>))>> \o UntilStop(15)),
    \* /I don't (?:fully )?understand\s+(.{15,}?)(?:\.|$)/gi
    Cat(<<Lit("I don't "), Opt(Lit("fully ")), Lit("understand"), Space1>> \o UntilStop(15)),
    \* /I (?:need|want) to (?:learn|know|explore|understand)\s+(.{15,}?)(?:\.|$)/gi
    Cat(<<Lit("I "), AltLit(<<"need", "want">>), Lit(" to "),
          AltLit(<<"learn", "know", "explore", "understand">>), Space1>> \o UntilStop(15)),
    \* /I'm not sure (?:about |whether |if |how |why )(.{15,}?)(?:\.|$)/gi
    Cat(<<Lit("I'm not sure "),
          AltLit(<<"about ", "whether ", "if ", "how ", "why ">>)>> \o UntilStop(15)),
    \* /(?:how|why|what|when|where) (?:does|do|did|is|are|was|were|would|could|should|can|might) .{10,}\?/gi
    Cat(<<AltLit(<<"how", "why", "what", "when", "where">>), Lit(" "),
          AltLit(<<"does", "do", "did", "is", "are", "was", "were", "would",
                   "could", "should", "can", "might">>)>> \o Question),
    \* /ich frage mich\s+(.{15,}?)(?:\.|$)/gi
    Cat(<<Lit("ich frage mich"), Space1>> \o UntilStop(15)),
    \* /ich (?:muss|will) (?:lernen|wissen|verstehen|erfahren)\s+(.{15,}?)(?:\.|$)/gi
    Cat(<<Lit("ich "), AltLit(<<"muss", "will">>), Lit(" "),
          AltLit(<<"lernen", "wissen", "verstehen", "erfahren">>), Space1>> \o UntilStop(15)),
    \* /ich bin mir (?:nicht )?(?:sicher|klar|bewusst)(?:,? ob | wie | warum | was )(.{10,}?)(?:\.|$)/gi
    Cat(<<Lit("ich bin mir "), Opt(Lit("nicht ")), AltLit(<<"sicher", "klar", "bewusst">>),
          Alt(<<Cat(<<Opt(Lit(",")), Lit(" ob ")>>), Lit(" wie "), Lit(" warum "), Lit(" was ")>>)>>
        \o UntilStop(10)),
    \* /ich verstehe (?:nicht |kaum )?(.{15,}?)(?:\.|$)/gi
    Cat(<<Lit("ich verstehe "), Opt(AltLit(<<"nicht ", "kaum ">>))>> \o UntilStop(15)),
    \* /wie (?:funktioniert|geht|kann|soll|musst) .{10,}\?/gi
    Cat(<<Lit("wie "), AltLit(<<"funktioniert", "geht", "kann", "soll", "musst">>)>> \o Question),
    \* /warum .{10,}\?/gi
    Cat(<<Lit("warum")>> \o Question),
    \* /was (?:bedeutet|ist|heißt|macht) .{10,}\?/gi
    Cat(<<Lit("was "), AltLit(<<"bedeutet", "ist", "heißt", "macht">>)>> \o Question),
    \* /keine ahnung (?:wie|warum|was|wo|wann) .{10,}/gi
    Cat(<<Lit("keine ahnung "), AltLit(<<"wie", "warum", "was", "wo", "wann">>),
          Lit(" "), Greedy("dot", 10, -1)>>)
>>

\* the fenced code block pattern of identifyGaps, non-greedy, flag g
\* (the lexer pairs a backquote with the next apostrophe, so the fence is
\* written next to one)
FENCE == <<"```", "'">>[1]
CODE_FENCE == Cat(<<LitCS(FENCE), Lazy("any", 0, -1), LitCS(FENCE)>>)

Prefix(ss) == Cat(<<Bol, AltLit(ss)>>)                \* /^(?:a|b|c)/i

FILTER_PATTERNS == <<
    Prefix(<<"would you", "do you", "can you", "should I", "shall I", "could I",
             "want me to", "let me">>),
    Prefix(<<"is that", "does that", "are you", "how about", "what if I">>),
    Prefix(<<"ready", "okay", "alright", "sure", "got it", "understood">>),
    Prefix(<<"those", "these", "that", "what about those", "ever notice", "imagine",
             "picture this">>),
    Prefix(<<"isn't it", "aren't they", "doesn't it", "don't they", "wouldn't it",
             "won't they">>),
    Prefix(<<"who doesn't", "who wouldn't", "who hasn't">>),
    Prefix(<<"sound familiar", "ring a bell", "know the feeling">>)
>>

DOCUMENT_NOISE_PATTERNS == <<
    \* /(?:chapter|section|page|figure|table)\s+\d/i
    Cat(<<AltLit(<<"chapter", "section", "page", "figure", "table">>), Space1,
          Greedy("digit", 1, 1)>>),
    \* /(?:©|copyright|all rights reserved|terms of service|privacy policy)/i
    AltLit(<<"©", "copyright", "all rights reserved", "terms of service", "privacy policy">>),
    \* /(?:click here|learn more|sign up|subscribe|download now|get started)/i
    AltLit(<<"click here", "learn more", "sign up", "subscribe", "download now",
             "get started">>),
    \* /(?:www\.|https?:\/\/)/i
    Alt(<<Lit("www."), Cat(<<Lit("http"), Opt(Lit("s")), Lit("://")>>)>>)
>>

\* /\[(?:CONTINUITY CONTEXT|STABILITY CONTEXT|GROWTH VECTORS|MEMORY INTEGRATION)\]
\*  [\s\S]*?(?=\[(?:CONTINUITY|STABILITY|GROWTH|MEMORY)|$)/gi
CONTEXT_BLOCK_PATTERN ==
    Cat(<<Lit("["),
          AltLit(<<"CONTINUITY CONTEXT", "STABILITY CONTEXT", "GROWTH VECTORS",
                   "MEMORY INTEGRATION">>),
          Lit("]"),
          Lazy("any", 0, -1),
          Ahead(Alt(<<Cat(<<Lit("["),
                            AltLit(<<"CONTINUITY", "STABILITY", "GROWTH", "MEMORY">>)>>),
                      Eol>>))>>)

\* /^\[(?:Mon|Tue|Wed|Thu|Fri|Sat|Sun) \d{4}-\d{2}-\d{2} \d{2}:\d{2} [A-Z]+\]\s*/
TIMESTAMP_PREFIX ==
    Cat(<<Bol, LitCS("["),
          Alt(<<LitCS("Mon"), LitCS("Tue"), LitCS("Wed"), LitCS("Thu"), LitCS("Fri"),
                LitCS("Sat"), LitCS("Sun")>>),
          LitCS(" "), Greedy("digit", 4, 4), LitCS("-"), Greedy("digit", 2, 2), LitCS("-"),
          Greedy("digit", 2, 2), LitCS(" "), Greedy("digit", 2, 2), LitCS(":"),
          Greedy("digit", 2, 2), LitCS(" "), Greedy("upper", 1, -1), LitCS("]"),
          Greedy("space", 0, -1)>>)

\* the line prefixes stripContextBlocks drops
INJECTION_MARKERS ==
    <<"Entropy:", "Principles:", "Session:", "Topics:", "Speak from this memory",
      "- They told you:", "  You said:", "You remember these earlier">>

TABLE_ROW     == Cat(<<LitCS("|"), Greedy("notnl", 1, -1), LitCS("|")>>)   \* /\|[^\n]+\|/g
SPACE_RUN     == Space1                                                    \* /\s+/g
SENTENCE_BREAK == Cat(<<Behind("term"), Space1>>)                          \* /(?<=[.!?])\s+/

\* /(?:how|why|what|where|when|who|which)\s+(?:does|do|did|is|are|was|were|would|could|should|can|might|will|has|have|had)/i
INQUIRY_WH ==
    Cat(<<AltLit(<<"how", "why", "what", "where", "when", "who", "which">>), Space1,
          AltLit(<<"does", "do", "did", "is", "are", "was", "were", "would", "could",
                   "should", "can", "might", "will", "has", "have", "had">>)>>)

\* /(?:I|we|you)\s+(?:wonder|don't|need|want|should|could)/i
INQUIRY_PRONOUN ==
    Cat(<<AltLit(<<"I", "we", "you">>), Space1,
          AltLit(<<"wonder", "don't", "need", "want", "should", "could">>)>>)

-----------------------------------------------------------------------------
(* JavaScript values: a record with its kind k and, where it has one, its  *)
(* value v.  Entropy and entropyThreshold are numbers in tenths.           *)

Undefined == [k |-> "undefined"]
Null      == [k |-> "null"]
Str(s)    == [k |-> "string", v |-> s]
Num(n)    == [k |-> "number", v |-> n]
Arr(xs)   == [k |-> "array", v |-> xs]
Obj(fs)   == [k |-> "object", v |-> fs]

Nullish(x) == x.k \in {"undefined", "null"}

\* !!x
Truthy(x) ==
    CASE x.k \in {"undefined", "null"} -> FALSE
      [] x.k = "string" -> x.v # ""
      [] x.k = "number" -> x.v # 0
      [] OTHER -> TRUE

\* x.f of a value that is not null or undefined
Get(x, f) == IF x.k = "object" /\ f \in DOMAIN x.v THEN x.v[f] ELSE Undefined

\* x?.f
OptGet(x, f) == IF Nullish(x) THEN Undefined ELSE Get(x, f)

Digits == <<"0", "1", "2", "3", "4", "5", "6", "7", "8", "9">>

RECURSIVE NatToString(_)
NatToString(n) ==
    IF n < 10 THEN Digits[n + 1] ELSE NatToString(n \div 10) \o Digits[(n % 10) + 1]

RECURSIVE StringOf(_)
RECURSIVE ElementsToString(_, _)

\* String(x); an array as its elements joined by commas, null and undefined
\* elements as the empty string
StringOf(x) ==
    CASE x.k = "string"    -> x.v
      [] x.k = "number"    -> IF x.v < 0 THEN "-" \o NatToString(-x.v) ELSE NatToString(x.v)
      [] x.k = "undefined" -> "undefined"
      [] x.k = "null"      -> "null"
      [] x.k = "array"     -> join(ElementsToString(x.v, 1), ",")
      [] x.k = "object"    -> "[object Object]"

ElementsToString(xs, k) ==
    IF k > Len(xs) THEN << >>
    ELSE <<IF Nullish(xs[k]) THEN "" ELSE StringOf(xs[k])>> \o ElementsToString(xs, k + 1)

-----------------------------------------------------------------------------
(* normalizeText and stripContextBlocks                                    *)

\* part?.text || part?.content || ''
PartText(part) ==
    LET text    == OptGet(part, "text")
        content == OptGet(part, "content")
    IN  IF Truthy(text) THEN text ELSE IF Truthy(content) THEN content ELSE Str("")

normalizeText(msg) ==
    IF ~Truthy(msg) THEN ""
    ELSE LET content == Get(msg, "content")
         IN  CASE content.k = "string" -> content.v
               [] content.k = "array"  ->
                      join(ElementsToString([k \in 1..Len(content.v) |-> PartText(content.v[k])], 1),
                           " ")
               [] OTHER -> StringOf(IF Truthy(content) THEN content ELSE Str(""))

\* the filter of stripContextBlocks: the line is kept
KeepLine(line) ==
    LET trimmed == trim(line)
    IN  \A k \in 1..Len(INJECTION_MARKERS) : ~startsWith(trimmed, INJECTION_MARKERS[k])

RECURSIVE FilterLines(_, _)
FilterLines(lines, k) ==
    IF k > Len(lines) THEN << >>
    ELSE (IF KeepLine(lines[k]) THEN <<lines[k]>> ELSE << >>) \o FilterLines(lines, k + 1)

stripContextBlocks(text) ==
    trim(join(FilterLines(splitLines(
                  replaceFirst(TIMESTAMP_PREFIX,
                               replaceAll(CONTEXT_BLOCK_PATTERN, text, ""), "")), 1),
              "\n"))

-----------------------------------------------------------------------------
(* extractGapsFromText                                                     *)

MinGapLength      == 15      \* gap.length < 15
MinQuestionLength == 30      \* trimmed.length < 30

NeverConversational(gap) == FALSE

\* FILTER_PATTERNS.some(f => f.test(gap))
IsConversational(gap) == \E k \in 1..Len(FILTER_PATTERNS) : test(FILTER_PATTERNS[k], gap)

NoNoise(gap) == FALSE

\* DOCUMENT_NOISE_PATTERNS.some(f => f.test(trimmed))
IsDocumentNoise(gap) ==
    \E k \in 1..Len(DOCUMENT_NOISE_PATTERNS) : test(DOCUMENT_NOISE_PATTERNS[k], gap)

AnyQuestion(gap) == TRUE

\* the two tests for a subject and a verb that suggest an inquiry
LooksLikeInquiry(gap) == test(INQUIRY_WH, gap) \/ test(INQUIRY_PRONOUN, gap)

KeepCase(gap) == replaceAll(SPACE_RUN, gap, " ")

\* gap.toLowerCase().replace(/\s+/g, ' ')
normalize(gap) == replaceAll(SPACE_RUN, toLowerCase(gap), " ")

KeepLastIndex(li, k) == li

\* pattern.lastIndex = 0
ResetLastIndex(li, k) == [li EXCEPT ![k] = 0]

\* seen.add(normalized); gaps.push(gap); the return at the cap
Accept(st, gap, maxCount) ==
    [st EXCEPT !.gaps = Append(st.gaps, gap),
               !.seen = st.seen \cup {normalize(gap)},
               !.returned = Len(st.gaps) + 1 >= maxCount]

RECURSIVE ExecLoop(_, _, _, _)

\* the body of the while loop for the match gap, lastIndex already moved
Consider(text, maxCount, k, st, gap) ==
    IF \/ Len(gap) < MinGapLength
       \/ IsConversational(gap)
       \/ normalize(gap) \in st.seen
    THEN ExecLoop(text, maxCount, k, st)
    ELSE ExecLoop(text, maxCount, k, Accept(st, gap, maxCount))

\* pattern.exec(text) gave match: null ends the loop and leaves lastIndex 0
Exec(text, maxCount, k, st, match) ==
    IF ~match.found THEN [st EXCEPT !.lastIndex[k] = 0]
    ELSE Consider(text, maxCount, k, [st EXCEPT !.lastIndex[k] = match.end],
                  trim(Substring(text, match.index, match.end)))

\* the while loop of pass 1 over pattern k: exec from lastIndex until null
\* or until the function has returned
ExecLoop(text, maxCount, k, st) ==
    IF st.returned THEN st
    ELSE Exec(text, maxCount, k, st, SearchFrom(GAP_PATTERNS[k], text, st.lastIndex[k]))

\* pass 1: the explicit gap patterns, in order
RECURSIVE Pass1(_, _, _, _)
Pass1(text, maxCount, k, st) ==
    IF k > Len(GAP_PATTERNS) \/ st.returned THEN st
    ELSE Pass1(text, maxCount, k + 1,
               ExecLoop(text, maxCount, k,
                        [st EXCEPT !.lastIndex = ResetLastIndex(st.lastIndex, k)]))

\* the body of the loop of pass 2 for one trimmed sentence
Sentence(trimmed, maxCount, st) ==
    IF \/ ~endsWith(trimmed, "?")
       \/ Len(trimmed) < MinQuestionLength
       \/ IsConversational(trimmed)
       \/ IsDocumentNoise(trimmed)
       \/ ~LooksLikeInquiry(trimmed)
       \/ normalize(trimmed) \in st.seen
    THEN st
    ELSE Accept(st, trimmed, maxCount)

\* pass 2: the sentences that end in a question mark
RECURSIVE Pass2(_, _, _, _)
Pass2(sentences, maxCount, k, st) ==
    IF k > Len(sentences) \/ st.returned THEN st
    ELSE Pass2(sentences, maxCount, k + 1, Sentence(trim(sentences[k]), maxCount, st))

Returned(st) == [gaps |-> st.gaps, lastIndex |-> st.lastIndex]

StandaloneFirst(text, maxCount, li) ==
    Returned(Pass1(text, maxCount, 1,
                   Pass2(split(SENTENCE_BREAK, text), maxCount, 1,
                         [gaps |-> << >>, seen |-> {}, lastIndex |-> li,
                          returned |-> FALSE])))

\* the call extractGapsFromText(text, maxCount) with the patterns' lastIndex
\* as the call finds it: the gaps returned and lastIndex as the call leaves it
extractGapsFromText(text, maxCount, li) ==
    Returned(Pass2(split(SENTENCE_BREAK, text), maxCount, 1,
                   Pass1(text, maxCount, 1,
                         [gaps |-> << >>, seen |-> {}, lastIndex |-> li,
                          returned |-> FALSE])))

-----------------------------------------------------------------------------
(* identifyGaps                                                            *)

DefaultEntropyThreshold == 5     \* extractionConfig.entropyThreshold ?? 0.5
DefaultMaxGaps          == 2     \* extractionConfig.maxGapsPerExchange || 2
WindowSize              == 6     \* (messages || []).slice(-6)
MinPartLength           == 10    \* cleaned.length > 10
ContextLimit            == 1200  \* conversationText.slice(0, 1200)

spliceLast(xs, n) ==
    LET from == IF Len(xs) > n THEN Len(xs) - n ELSE 0
    IN  [value |-> SubSeq(xs, from + 1, Len(xs)), receiver |-> SubSeq(xs, 1, from)]

\* xs.slice(-n): the value returned and the array as the call leaves it
sliceLast(xs, n) ==
    LET from == IF Len(xs) > n THEN Len(xs) - n ELSE 0
    IN  [value |-> SubSeq(xs, from + 1, Len(xs)), receiver |-> xs]

AnyRole(msg) == TRUE

\* msg.role !== 'user' is false
IsUser(msg) ==
    LET role == Get(msg, "role")
    IN  role.k = "string" /\ role.v = "user"

\* stripContextBlocks, then the code blocks and the table rows removed
Clean(text) ==
    replaceAll(TABLE_ROW, replaceAll(CODE_FENCE, stripContextBlocks(text), ""), "")

NeverEmpty(text) == FALSE

\* !text of a string
Empty(text) == text = ""

\* cleaned.length > 10: the part pushed
LongEnough(cleaned) == IF Len(cleaned) > MinPartLength THEN <<cleaned>> ELSE << >>

\* the body of the loop for one message, text being normalizeText(msg)
Part(msg, text) == IF IsUser(msg) /\ ~Empty(text) THEN LongEnough(Clean(text)) ELSE << >>

Before(mine, rest) == [threw |-> rest.threw, parts |-> mine \o rest.parts]

\* the loop over recentMessages: whether it threw (msg.role of null or
\* undefined) and the parts it pushed
RECURSIVE ConversationParts(_, _)
ConversationParts(recent, k) ==
    IF k > Len(recent) THEN [threw |-> FALSE, parts |-> << >>]
    ELSE IF Nullish(recent[k]) THEN [threw |-> TRUE, parts |-> << >>]
    ELSE Before(Part(recent[k], normalizeText(recent[k])), ConversationParts(recent, k + 1))

\* keywords.some(k => lowered.includes(String(k).toLowerCase()))
KeywordHit(keywords, lowered) ==
    \E k \in 1..Len(keywords) : includes(lowered, toLowerCase(StringOf(keywords[k])))

RejectedOnKeyword(ent, threshold, keywordHit) == ent < threshold /\ keywordHit

\* entropy < entropyThreshold && !keywordHit
Rejected(ent, threshold, keywordHit) == ent < threshold /\ ~keywordHit

\* the records identifyGaps returns (id and source, which hold the time of
\* the call, left out)
GapRecords(questions, conversationText, ent) ==
    [k \in 1..Len(questions) |->
        [question |-> questions[k],
         context  |-> Substring(conversationText, 0,
                                IF Len(conversationText) < ContextLimit
                                THEN Len(conversationText) ELSE ContextLimit),
         entropy  |-> ent]]

Outcome(threw, value, li, msgs) ==
    [threw |-> threw, value |-> value, lastIndex |-> li, messages |-> msgs]

\* from the keyword check on, conversationText being non-empty
Gate(conversationText, ent, threshold, keywords, maxGaps, li, msgs, found) ==
    IF keywords.k # "array"                                \* no some method
    THEN Outcome(TRUE, << >>, li, msgs)
    ELSE IF Rejected(ent, threshold, KeywordHit(keywords.v, toLowerCase(conversationText)))
         THEN Outcome(FALSE, << >>, li, msgs)
         ELSE Outcome(FALSE, GapRecords(found.gaps, conversationText, ent),
                      found.lastIndex, msgs)

\* from the join on
Joined(conversationText, ent, threshold, keywords, maxGaps, li, msgs) ==
    IF Empty(conversationText) THEN Outcome(FALSE, << >>, li, msgs)
    ELSE Gate(conversationText, ent, threshold, keywords, maxGaps, li, msgs,
              extractGapsFromText(conversationText, maxGaps, li))

\* after the loop over recentMessages
Built(built, ent, threshold, keywords, maxGaps, li, msgs) ==
    IF built.threw THEN Outcome(TRUE, << >>, li, msgs)
    ELSE Joined(join(built.parts, "\n\n"), ent, threshold, keywords, maxGaps, li, msgs)

\* from the slice on, array being messages || []
Sliced(sliced, isArray, msgs, ent, threshold, keywords, maxGaps, li) ==
    Built(ConversationParts(sliced.value, 1), ent, threshold, keywords, maxGaps, li,
          IF isArray THEN Arr(sliced.receiver) ELSE msgs)

Characters(text) == [k \in 1..Len(text) |-> Str(CharAt(text, k - 1))]

\* the call identifyGaps({ messages: msgs, entropy: ent, extractionConfig: cfg })
\* with the patterns' lastIndex li: whether it threw, what it returned, and
\* lastIndex and the messages array as it leaves them
identifyGaps(msgs, ent, cfg, li) ==
    LET config == IF cfg.k = "undefined" THEN Obj(<< >>) ELSE cfg
    IN  IF Nullish(config) THEN Outcome(TRUE, << >>, li, msgs)
        ELSE
        LET givenThreshold == Get(config, "entropyThreshold")
            entropyThreshold == IF Nullish(givenThreshold) THEN DefaultEntropyThreshold
                                ELSE givenThreshold.v
            givenKeywords == Get(config, "keywords")
            keywords == IF Truthy(givenKeywords) THEN givenKeywords ELSE Arr(<< >>)
            givenMax == Get(config, "maxGapsPerExchange")
            maxGaps  == IF Truthy(givenMax) THEN givenMax.v ELSE DefaultMaxGaps
            array    == IF Truthy(msgs) THEN msgs ELSE Arr(<< >>)
        IN  IF array.k \notin {"array", "string"}          \* no slice method
            THEN Outcome(TRUE, << >>, li, msgs)
            ELSE Sliced(sliceLast(IF array.k = "array" THEN array.v
                                  ELSE Characters(array.v), WindowSize),
                        Truthy(msgs) /\ msgs.k = "array",
                        msgs, ent, entropyThreshold, keywords, maxGaps, li)

-----------------------------------------------------------------------------
(* The calls                                                               *)

\* nightshift as a handler finds it: what isInOfficeHours and isUserActive
\* answer ("none": the function is not there) and whether queueTask is there
Nightshift(inOfficeHours, userActive, queueTask) ==
    [isInOfficeHours |-> inOfficeHours, isUserActive |-> userActive, queueTask |-> queueTask]

MaxInquiries == 2    \* inquiries added to the store
MaxTasks     == 2    \* tasks nightshift holds for the agent
PassCount    == 3    \* passes of an inquiry

\* the agents other than 'main' that handlers are called for
OtherAgents == {"scout"}

\* getState: the entry of an agent as it is created
Created == [store |-> << >>, processing |-> FALSE, at |-> "idle", due |-> 0, trace |-> << >>]

\* a handler that has not run
Resting == [at |-> "idle", ns |-> Nightshift("none", "none", FALSE), due |-> 0, trace |-> << >>]

Init ==
    /\ messages = Arr(<< >>)
    /\ entropy = 0
    /\ extractionConfig = Undefined
    /\ lastIndex = [k \in 1..Len(GAP_PATTERNS) |-> 0]
    /\ pc = "idle"
    /\ result = << >>
    /\ atCall = [k \in 1..Len(GAP_PATTERNS) |-> 0]
    /\ ollama = "idle"
    /\ timer = Undefined
    /\ res = Undefined
    /\ reply = Undefined
    /\ helper = [name |-> "none", arg |-> Undefined]
    /\ returned = Undefined
    /\ store = << >>
    /\ processing = FALSE
    /\ hook = [p \in {"heartbeat", "task"} |-> Resting]
    /\ queued = 0
    /\ states = [a \in OtherAgents |-> Created]
    /\ files = [i \in 1..MaxInquiries |-> [vector |-> FALSE, insight |-> FALSE, logged |-> "none"]]

\* the agent_end hook reaches its call of identifyGaps with these arguments
AgentEnd(msgs, ent, cfg) ==
    /\ pc # "called"
    /\ messages' = msgs
    /\ entropy' = ent
    /\ extractionConfig' = cfg
    /\ pc' = "called"
    /\ result' = << >>
    /\ atCall' = lastIndex
    /\ UNCHANGED <<lastIndex, reflectVars, helperVars, pluginVars>>

\* the call runs and returns or throws
IdentifyGaps ==
    /\ pc = "called"
    /\ \E out \in {identifyGaps(messages, entropy, extractionConfig, lastIndex)} :
           /\ pc' = IF out.threw THEN "threw" ELSE "returned"
           /\ result' = out.value
           /\ lastIndex' = out.lastIndex
           /\ messages' = out.messages
    /\ UNCHANGED <<entropy, extractionConfig, atCall, reflectVars, helperVars, pluginVars>>

-----------------------------------------------------------------------------
(* Arguments of the calls                                                  *)

MaxCap  == 3         \* maxGapsPerExchange ranges over -1..MaxCap
MaxMsgs == 7         \* the longest message window

UserMsg(text)      == Obj([role |-> Str("user"), content |-> Str(text)])
AssistantMsg(text) == Obj([role |-> Str("assistant"), content |-> Str(text)])

Config(threshold, keywords, maxGaps) ==
    Obj([entropyThreshold |-> threshold, keywords |-> keywords,
         maxGapsPerExchange |-> maxGaps])

TERNS ==
    "I wonder how the tidal patterns actually affect migration timing for arctic terns."

MANY ==
    "I wonder why the cache misses so often. i  WONDER why the cache misses so often. "
    \o "So, how does the scheduler pick the next pass to run? "
    \o "I'm curious about the retry budget in here.\n"
    \o "Would you mind checking that for me?"

ASK_ONE == "How does the scheduler pick the next pass to run?"
ASK_TWO == "Right.\nhow does the SCHEDULER pick  the next pass to run?"
ANSWER  == "I wonder whether the assistant should explain the cache."
SHORT   == "Why so?"

\* injected context blocks, and real user text that follows one
BLOCKS ==
    <<"[CONTINUITY CONTEXT]\nSession: 12\nI wonder whether the block hides a secret.\n\n",
      "[memory integration]\nYou remember these earlier talks.\n">>
REAL_TEXTS ==
    <<"I wonder how the tidal patterns affect terns.",
      "Why does the retry budget shrink after a failed pass?">>

\* a user message whose content is an array of parts
PARTS ==
    Obj([role |-> Str("user"),
         content |-> Arr(<<Obj([text |-> Str("I wonder how the parts")]), Null,
                           Obj([content |-> Str("of a message are joined.")])>>)])

Repeated == Arr(<<UserMsg(ASK_ONE), AssistantMsg(ANSWER), UserMsg(ASK_TWO)>>)
Blocked(b, r) == Arr(<<UserMsg(BLOCKS[b] \o REAL_TEXTS[r])>>)

Windows ==
    <<Arr(<<UserMsg(MANY)>>),
      Repeated,
      Arr(<<PARTS>>),
      Arr(<<UserMsg(REAL_TEXTS[1])>>),
      Blocked(1, 1),
      Blocked(2, 2)>>

\* maxGapsPerExchange: absent, or -1 .. MaxCap
Caps == [k \in 1..(MaxCap + 3) |-> IF k = 1 THEN Undefined ELSE Num(k - 3)]

\* entropy and entropyThreshold, in tenths
Entropies  == <<2, 8>>
Thresholds == <<Undefined, Num(1), Num(9)>>

\* calls that pass the admission gate on entropy, the cap varied
Next ==
    \/ \E w \in 1..Len(Windows), c \in 1..Len(Caps) :
           AgentEnd(Windows[w], Entropies[2], Config(Undefined, Undefined, Caps[c]))
    \/ IdentifyGaps

Spec == Init /\ [][Next]_vars

\* windows with and without a qualifying user message
GateWindows ==
    <<Arr(<<UserMsg(MANY)>>),
      Repeated,
      Arr(<< >>),
      Undefined,
      Arr(<<AssistantMsg(ANSWER)>>),
      Arr(<<UserMsg(SHORT), UserMsg("")>>),
      Arr(<<UserMsg(BLOCKS[1])>>)>>

\* keywords: absent, none, one that occurs in MANY in another case, the
\* empty string, one that occurs nowhere, and a string in place of the array
KeywordSets ==
    <<Undefined, Arr(<< >>), Arr(<<Str("tern"), Str("CACHE")>>), Arr(<<Str("")>>),
      Arr(<<Str("entropy")>>), Str("cache")>>

\* calls with the entropy, the threshold and the keywords varied
NextGate ==
    \/ \E w \in 1..Len(GateWindows), e \in 1..Len(Entropies),
          t \in 1..Len(Thresholds), k \in 1..Len(KeywordSets) :
           AgentEnd(GateWindows[w], Entropies[e],
                    Config(Thresholds[t], KeywordSets[k], Undefined))
    \/ IdentifyGaps

SpecGate == Init /\ [][NextGate]_vars

\* a window of n messages: old, then assistant messages, then new
Window(old, new, n) ==
    Arr(<<old>> \o [k \in 1..(n - 2) |-> AssistantMsg(ANSWER)] \o <<new>>)

Speakers == <<UserMsg(ASK_ONE), AssistantMsg(MANY), UserMsg(TERNS)>>

\* calls with windows of six messages and more, of users and assistants
NextWindow ==
    \/ \E old \in 1..Len(Speakers), new \in 1..Len(Speakers),
          n \in WindowSize..MaxMsgs, cap \in {Undefined, Num(1)} :
           AgentEnd(Window(Speakers[old], Speakers[new], n), Entropies[2],
                    Config(Undefined, Undefined, cap))
    \/ IdentifyGaps

SpecWindow == Init /\ [][NextWindow]_vars

\* messages arguments of other shapes than an array of role and content
ShapedWindows ==
    <<Undefined, Null, Num(5), Str(TERNS), Obj([length |-> Num(1)]),
      Arr(<<Null>>),
      Arr(<<UserMsg(TERNS), Undefined>>),
      Arr(<<Str(TERNS), Obj(<< >>)>>),
      Arr(<<Obj([role |-> Str("user")])>>),
      Arr(<<Obj([role |-> Str("user"), content |-> Null])>>),
      Arr(<<Obj([role |-> Str("user"), content |-> Num(42)])>>),
      Arr(<<Obj([role |-> Str("user"), content |-> Obj([text |-> Str(TERNS)])])>>),
      Arr(<<PARTS>>),
      Arr(<<UserMsg(TERNS)>>)>>

\* extractionConfig arguments: absent, null, empty, every field null, and
\* keywords that are not an array
ShapedConfigs ==
    <<Undefined, Null, Obj(<< >>), Config(Null, Null, Null),
      Config(Undefined, Num(0), Undefined), Config(Undefined, Str("tern"), Undefined),
      Config(Undefined, Arr(<<Null, Num(12)>>), Undefined)>>

\* calls with arguments of these shapes
NextShapes ==
    \/ \E w \in 1..Len(ShapedWindows), c \in 1..Len(ShapedConfigs) :
           AgentEnd(ShapedWindows[w], Entropies[2], ShapedConfigs[c])
    \/ IdentifyGaps

SpecShapes == Init /\ [][NextShapes]_vars

-----------------------------------------------------------------------------
(* Properties of a call that has returned                                  *)

Questions(records) == [k \in 1..Len(records) |-> records[k].question]

\* the maxGapsPerExchange the caller configured
Configured == Get(extractionConfig, "maxGapsPerExchange")

\* lower case, every run of white space one space
NormalForm(s) == replaceAll(Space1, toLowerCase(s), " ")

\* lastIndex of patterns no call has used yet
Fresh == [k \in 1..Len(GAP_PATTERNS) |-> 0]

\* C1: whatever the window, the entropy and the config, a maxGapsPerExchange
\* of 0 or less included, identifyGaps returns no more gaps than the
\* configured maxGapsPerExchange
CapRespected ==
    (pc = "returned" /\ Configured.k = "number") => Len(result) <= Configured.v

\* C2: no two gaps one call returns have the same normalized form (lower
\* case, white space runs collapsed), whichever pass produced them
NoTwoAlike ==
    pc = "returned" =>
        \A i, j \in 1..Len(result) :
            NormalForm(result[i].question) = NormalForm(result[j].question) => i = j

\* C2 happens: the window holds one question written in two ways, found by
\* pass 1 twice and by pass 2 twice, and one gap is returned with room for
\* more
OneOfTheAlikeKept ==
    /\ pc = "returned"
    /\ messages = Repeated
    /\ Configured = Num(MaxCap)
    /\ Questions(result) = <<ASK_ONE>>

\* C4: a call returns the gaps the first call with the same window, entropy
\* and config returns, whatever calls came before it and wherever they left
\* lastIndex of the shared patterns; so two calls with the same arguments
\* return the same gaps
SameAsFirstCall ==
    pc = "returned" =>
        Questions(result) =
            Questions(identifyGaps(messages, entropy, extractionConfig, Fresh).value)

\* C4 happens: a call with cap 1 returned early and left lastIndex of the
\* first pattern behind its match, and the next call with the same window
\* and cap returned the same first gap
SecondCallAfterEarlyReturn ==
    /\ pc = "returned"
    /\ messages = Arr(<<UserMsg(MANY)>>)
    /\ Configured = Num(1)
    /\ atCall[1] = Len(result[1].question)
    /\ Questions(result) = <<"I wonder why the cache misses so often.">>

\* C5: a user message that holds a context block followed by real user text
\* yields the gaps of the real text, as the real text alone does, and none
\* from the block
RealTextAfterBlockKept ==
    \A b \in 1..Len(BLOCKS), r \in 1..Len(REAL_TEXTS) :
        (pc = "returned" /\ messages = Blocked(b, r)) =>
            Questions(result) =
                Questions(identifyGaps(Arr(<<UserMsg(REAL_TEXTS[r])>>), entropy,
                                       extractionConfig, Fresh).value)

\* C7: with a configured maxGapsPerExchange of 0 or less identifyGaps
\* returns no gaps, whatever the window and the entropy
NoOutputAtZero ==
    (pc = "returned" /\ Configured.k = "number" /\ Configured.v <= 0) => result = << >>

\* C10: the call leaves its inputs as they were: the messages array, every
\* message's role and content, and the extraction config
InputsKept ==
    [][pc = "called" =>
           /\ messages' = messages
           /\ extractionConfig' = extractionConfig
           /\ entropy' = entropy]_vars

\* C10 happens: a call has returned gaps from a window whose message holds
\* an array of parts, and the window is as it was passed
PartsKept ==
    /\ pc = "returned"
    /\ messages = Arr(<<PARTS>>)
    /\ Len(result) = 1

-----------------------------------------------------------------------------
(* Properties of the admission gate                                        *)

\* the last six messages of the window passed
LastSix ==
    IF messages.k = "array"
    THEN SubSeq(messages.v, IF Len(messages.v) > 6 THEN Len(messages.v) - 5 ELSE 1,
                Len(messages.v))
    ELSE << >>

\* a user message whose sanitized text is long enough to join the corpus
Qualifies(msg) ==
    Get(msg, "role") = Str("user") /\ Len(Clean(normalizeText(msg))) > 10

\* the combined corpus of the window passed
Corpus == join(ConversationParts(LastSix, 1).parts, "\n\n")

\* the threshold in force
Threshold ==
    IF Nullish(Get(extractionConfig, "entropyThreshold")) THEN DefaultEntropyThreshold
    ELSE Get(extractionConfig, "entropyThreshold").v

\* the configured keywords
Keywords ==
    IF Get(extractionConfig, "keywords").k = "array"
    THEN Get(extractionConfig, "keywords").v ELSE << >>

\* keyword k occurs in the corpus, letter case aside
Occurs(k) == includes(toLowerCase(Corpus), toLowerCase(Keywords[k].v))

\* C3: when the entropy is below the threshold and no configured keyword
\* occurs in the corpus, identifyGaps returns no gaps, however many gap
\* phrases the corpus holds
AdmissionGate ==
    (pc = "returned" /\ entropy < Threshold /\ \A k \in 1..Len(Keywords) : ~Occurs(k))
        => result = << >>

\* C3 happens: a window full of gap phrases, an entropy below the default
\* threshold and a keyword that occurs nowhere, and the call returned nothing
GateShut ==
    /\ pc = "returned"
    /\ messages = Arr(<<UserMsg(MANY)>>)
    /\ entropy = Entropies[1]
    /\ Get(extractionConfig, "entropyThreshold") = Undefined
    /\ Get(extractionConfig, "keywords") = Arr(<<Str("entropy")>>)
    /\ result = << >>

\* C9: when no user message of the window qualifies, the corpus is empty
\* and the call returns no gaps, whatever the entropy, the threshold and
\* the keywords
EmptyCorpusEmptyResult ==
    (pc \in {"returned", "threw"} /\ \A k \in 1..Len(LastSix) : ~Qualifies(LastSix[k]))
        => (pc = "returned" /\ result = << >>)

\* C9 happens: the only user messages are too short, the entropy is above
\* the threshold and the keyword is the empty string, and the call returned
\* nothing
NothingFromNothing ==
    /\ pc = "returned"
    /\ messages = Arr(<<UserMsg(SHORT), UserMsg("")>>)
    /\ entropy = Entropies[2]
    /\ Get(extractionConfig, "entropyThreshold") = Num(1)
    /\ Get(extractionConfig, "keywords") = Arr(<<Str("")>>)
    /\ result = << >>

-----------------------------------------------------------------------------
(* Properties of the window and of the shapes of the arguments             *)

\* the user messages among the last six
UserWindow == SelectSeq(LastSix, LAMBDA msg : Get(msg, "role") = Str("user"))

NeverRaises == pc # "threw"

-----------------------------------------------------------------------------
(* Calls that exercise the two passes of extractGapsFromText               *)

\* what the user says in these calls
PassTexts ==
    [nearOne    |-> "I don't fully understand how the error handling cascades here.",
     nearTwo    |-> "I don't fully understand how the error handling cascades.",
     \* a question after a leading word
     leading    |-> "So, how does the scheduler pick the next pass to run?",
     \* questions that are no inquiry, or too short
     chance     |-> "Any chance the deploy finishes before lunch today? Why is that so?",
     \* document noise in a standalone question and in an explicit gap
     noise      |-> "Who has read section 4 of the migration guide? "
                    \o "Who can sign up for the beta of the new scheduler? "
                    \o "When will www.example.org stop timing out? "
                    \o "Which will the privacy policy cover in the end? "
                    \o "I wonder whether chapter 3 covers the retry budget.",
     \* conversational openers at the start of a sentence
     openers    |-> "Do you want me to rerun the failed pass again? "
                    \o "ARE YOU sure we should retry the failed upload here? "
                    \o "Would you say why does the cache miss so often?",
     \* two standalone questions
     standalone |-> "Who has already traced the cascade through the retry queue? "
                    \o "Which will finish first under the new scheduler, I wonder?",
     \* the later pattern matches earlier in the text, and a standalone question
     ordered    |-> "So, how does the scheduler pick the next pass to run? "
                    \o "I wonder why the cache misses so often."]

PassWindows ==
    <<Arr(<<UserMsg(PassTexts.nearOne), UserMsg(PassTexts.nearTwo)>>),
      Arr(<<UserMsg(PassTexts.leading)>>),
      Arr(<<UserMsg(PassTexts.chance)>>),
      Arr(<<UserMsg(PassTexts.noise)>>),
      Arr(<<UserMsg(PassTexts.openers)>>),
      Arr(<<UserMsg(PassTexts.standalone)>>),
      Arr(<<UserMsg(PassTexts.ordered)>>)>>

\* maxGapsPerExchange: absent, or one that no pass reaches
PassCaps == <<Undefined, Num(MaxCap + 2)>>

NextPasses ==
    \/ \E w \in 1..Len(PassWindows), c \in 1..Len(PassCaps) :
           AgentEnd(PassWindows[w], Entropies[2], Config(Undefined, Undefined, PassCaps[c]))
    \/ IdentifyGaps

SpecPasses == Init /\ [][NextPasses]_vars

\* C11: of two user messages, one with a gap and one with the same gap
\* without its last word, only one gap is returned under the default cap
OneOfNearDuplicates ==
    (/\ pc = "returned"
     /\ messages = PassWindows[1]
     /\ Configured = Undefined)
        => Len(result) = 1

\* C13: a sentence from which pass 1 took a gap is not returned again by
\* pass 2: no gap returned is a sentence that holds another gap returned,
\* also when that gap starts after the first word of the sentence
NoSentenceTwice ==
    pc = "returned" =>
        \A i, j \in 1..Len(result) :
            i # j => ~includes(Questions(result)[j], Questions(result)[i])

\* every match of pattern k in the text, from an offset on, left to right
RECURSIVE MatchesFrom(_, _, _)
MatchesFrom(k, text, from) ==
    LET match == SearchFrom(GAP_PATTERNS[k], text, from)
    IN  IF ~match.found THEN << >>
        ELSE <<[at |-> match.index, gap |-> trim(Substring(text, match.index, match.end))]>>
             \o MatchesFrom(k, text, IF match.end > match.index THEN match.end
                                     ELSE match.end + 1)

\* the matches of all patterns in the corpus of the call
AllMatches == [k \in 1..Len(GAP_PATTERNS) |-> MatchesFrom(k, Corpus, 0)]

\* where the explicit patterns find the gap: pattern index first, then offset
Keys(found, gap) ==
    UNION {{k * (Len(Corpus) + 1) + found[k][m].at :
               m \in {m \in DOMAIN found[k] : found[k][m].gap = gap}} :
           k \in DOMAIN found}

\* the sentences of the corpus that are the gap
Places(units, gap) == {i \in DOMAIN units : trim(units[i]) = gap}

Range(f) == {f[x] : x \in DOMAIN f}

Least(S) == CHOOSE x \in S : \A y \in S : x <= y

\* the cap in force
InForce == IF Truthy(Configured) THEN Configured.v ELSE DefaultMaxGaps

\* the first n gaps are explicit matches in the order of pass 1, the others
\* sentences in their order, there only if pass 1 ended below the cap with
\* every match it accepts among the first n
OrderedAt(q, n, found, units) ==
    /\ \A i \in 1..n : Keys(found, q[i]) # {}
    /\ \A i \in 1..(n - 1) : Least(Keys(found, q[i])) < Least(Keys(found, q[i + 1]))
    /\ \A i \in (n + 1)..Len(q) : Places(units, q[i]) # {}
    /\ \A i \in (n + 1)..(Len(q) - 1) :
           Least(Places(units, q[i])) < Least(Places(units, q[i + 1]))
    /\ n < Len(q) =>
           /\ n < InForce
           /\ \A k \in DOMAIN found : \A m \in DOMAIN found[k] :
                  (Len(found[k][m].gap) >= 15 /\ ~IsConversational(found[k][m].gap))
                      => \E i \in 1..n : NormalForm(q[i]) = NormalForm(found[k][m].gap)

\* C14: the gaps of pass 1 come first, by pattern index and then by position
\* of the match; the gaps of pass 2 follow in sentence order, and there are
\* some only if pass 1 went through all patterns with fewer gaps than the cap
PassOrder ==
    pc = "returned" =>
        \E n \in 0..Len(result) :
            OrderedAt(Questions(result), n, AllMatches, split(SENTENCE_BREAK, Corpus))

\* two explicit gaps against the order of the text, then a standalone question
BothPassesInOrder ==
    /\ pc = "returned"
    /\ Len(result) = 3
    /\ Questions(result)[3] = PassTexts.leading

\* the gaps returned that no explicit pattern finds in the corpus: the gaps
\* of pass 2
Standalone(found) ==
    {Questions(result)[i] : i \in {i \in 1..Len(result) : Keys(found, Questions(result)[i]) = {}}}

\* a wh-word and an auxiliary or modal verb, or a pronoun and one of
\* wonder, don't, need, want, should, could
SubjectAndVerb(unit) == test(INQUIRY_WH, unit) \/ test(INQUIRY_PRONOUN, unit)

\* C15: every gap of pass 2 ends in a question mark, is at least 30
\* characters long and has a wh-word with an auxiliary or a pronoun with one
\* of the six verbs; a sentence ending in a question mark that is shorter or
\* has neither is not returned by pass 2
StandaloneGate ==
    pc = "returned" =>
        /\ \A gap \in Standalone(AllMatches) :
               /\ SubSeq(gap, Len(gap), Len(gap)) = "?"
               /\ Len(gap) >= 30
               /\ SubjectAndVerb(gap)
        /\ \A unit \in {trim(u) : u \in Range(split(SENTENCE_BREAK, Corpus))} :
               (endsWith(unit, "?") /\ (Len(unit) < 30 \/ ~SubjectAndVerb(unit)))
                   => unit \notin Standalone(AllMatches)

\* pass 2 returned two questions and no explicit pattern matched
StandaloneReturned ==
    /\ pc = "returned"
    /\ Len(result) = 2
    /\ Standalone(AllMatches) = Range(Questions(result))

\* the text has one of the phrases, letter case aside
HasOneOf(text, phrases) == \E p \in phrases : includes(toLowerCase(text), p)

\* a reference with a number, legal boilerplate, a call to action, or a URL
Noisy(text) ==
    \/ HasOneOf(text, {word \o " " \o Digits[d] :
                          word \in {"chapter", "section", "page", "figure", "table"},
                          d \in DOMAIN Digits})
    \/ HasOneOf(text, {"©", "copyright", "all rights reserved", "terms of service",
                       "privacy policy"})
    \/ HasOneOf(text, {"click here", "learn more", "sign up", "subscribe", "download now",
                       "get started"})
    \/ HasOneOf(text, {"www.", "http://", "https://"})

\* C16: no gap of pass 2 holds document noise, and pass 1 rejects no match
\* for it: below the cap, every explicit match of 15 characters or more
\* without a conversational opener is returned, noise or not
NoiseFilterInPassTwoOnly ==
    pc = "returned" =>
        /\ \A gap \in Standalone(AllMatches) : ~Noisy(gap)
        /\ Len(result) < InForce =>
               \A k \in DOMAIN AllMatches : \A m \in DOMAIN AllMatches[k] :
                   (/\ Noisy(AllMatches[k][m].gap)
                    /\ Len(AllMatches[k][m].gap) >= 15
                    /\ ~IsConversational(AllMatches[k][m].gap))
                       => \E i \in 1..Len(result) :
                              NormalForm(Questions(result)[i]) = NormalForm(AllMatches[k][m].gap)

\* an explicit gap with noise is returned, the questions with noise are not
NoisyGapOfPassOne ==
    /\ pc = "returned"
    /\ \E i \in 1..Len(result) :
           Noisy(Questions(result)[i]) /\ Keys(AllMatches, Questions(result)[i]) # {}
    /\ \E u \in Range(split(SENTENCE_BREAK, Corpus)) :
           /\ Noisy(u) /\ endsWith(trim(u), "?") /\ SubjectAndVerb(u) /\ Len(trim(u)) >= 30
           /\ trim(u) \notin Range(Questions(result))

\* the conversational openers, in lower case
Openers ==
    {"would you", "do you", "can you", "should i", "shall i", "could i", "want me to",
     "let me", "is that", "does that", "are you", "how about", "what if i", "ready",
     "okay", "alright", "sure", "got it", "understood", "those", "these", "that",
     "what about those", "ever notice", "imagine", "picture this", "isn't it",
     "aren't they", "doesn't it", "don't they", "wouldn't it", "won't they",
     "who doesn't", "who wouldn't", "who hasn't", "sound familiar", "ring a bell",
     "know the feeling"}

\* the text begins with an opener, letter case aside
OpensConversation(text) == \E o \in Openers : startsWith(toLowerCase(text), o)

\* C17: no gap returned, of either pass, begins with a conversational opener,
\* letter case aside; only the start of the candidate itself counts: below
\* the cap an explicit match that does not begin with an opener is returned
\* whatever the sentence around it begins with
NoOpenerAtStart ==
    pc = "returned" =>
        /\ \A i \in 1..Len(result) : ~OpensConversation(Questions(result)[i])
        /\ Len(result) < InForce =>
               \A k \in DOMAIN AllMatches : \A m \in DOMAIN AllMatches[k] :
                   (Len(AllMatches[k][m].gap) >= 15 /\ ~OpensConversation(AllMatches[k][m].gap))
                       => \E i \in 1..Len(result) :
                              NormalForm(Questions(result)[i]) = NormalForm(AllMatches[k][m].gap)

\* questions that begin with an opener are left out, and the explicit match
\* inside one of them is returned
GapInsideOpenerSentence ==
    /\ pc = "returned"
    /\ \E u \in Range(split(SENTENCE_BREAK, Corpus)) :
           /\ OpensConversation(u)
           /\ \E i \in 1..Len(result) :
                  /\ includes(u, Questions(result)[i])
                  /\ u # Questions(result)[i]
    /\ \E u \in Range(split(SENTENCE_BREAK, Corpus)) :
           /\ OpensConversation(u) /\ endsWith(u, "?") /\ Len(u) >= 30 /\ SubjectAndVerb(u)
           /\ u \notin Range(Questions(result))

-----------------------------------------------------------------------------
(* callOllama (lib/reflect.js)                                             *)

DefaultTimeoutMs == 45000

\* a response body that JSON.parse rejects
NotJson == [k |-> "invalid"]

\* x?.[i]
OptAt(x, i) ==
    IF x.k = "array" /\ i < Len(x.v) THEN x.v[i + 1] ELSE Undefined

\* payload?.choices?.[0]?.message?.content
ContentOf(payload) ==
    OptGet(OptGet(OptAt(OptGet(payload, "choices"), 0), "message"), "content")

\* typeof text === 'string'
AnyString(text) == text.k = "string"

\* typeof text === 'string' && text.trim()
Usable(text) == text.k = "string" /\ trim(text.v) # ""

\* the statements after await res.json(): the value returned, or the throw
Answer(text) ==
    IF Usable(text) THEN [threw |-> FALSE, value |-> trim(text.v)]
    ELSE [threw |-> TRUE, value |-> "MLX response missing choices[0].message.content"]

\* no call of callOllama is running
NoCall ==
    /\ ollama' = "idle"
    /\ timer' = Undefined
    /\ res' = Undefined
    /\ reply' = Undefined

\* callOllama up to its await: the timer is set and the request sent
StartOllama(timeoutMs) ==
    /\ ollama \notin {"fetching", "parsing"}
    /\ ollama' = "fetching"
    /\ timer' = IF Truthy(timeoutMs) THEN timeoutMs ELSE Num(DefaultTimeoutMs)
    /\ res' = Undefined
    /\ reply' = Undefined

\* callOllama is called
CallOllama(timeoutMs) ==
    /\ StartOllama(timeoutMs)
    /\ UNCHANGED <<extractorVars, helperVars, pluginVars>>

\* fetch resolves with a response; one that is not ok is thrown on
Responds(response) ==
    /\ ollama = "fetching"
    /\ res' = response
    /\ IF ~response.ok
       THEN /\ ollama' = "threw"
            /\ reply' = Str("MLX request failed (" \o NatToString(response.status) \o ")")
            /\ timer' = Undefined
       ELSE /\ ollama' = "parsing"
            /\ UNCHANGED <<reply, timer>>
    /\ UNCHANGED <<extractorVars, helperVars, pluginVars>>

\* res.json() resolves with the payload, or rejects on a body that is no JSON
Parses ==
    /\ ollama = "parsing"
    /\ IF res.json = NotJson
       THEN /\ ollama' = "threw"
            /\ reply' = Str("Unexpected token")
       ELSE \E out \in {Answer(ContentOf(res.json))} :
                /\ ollama' = IF out.threw THEN "threw" ELSE "returned"
                /\ reply' = Str(out.value)
    /\ timer' = Undefined
    /\ UNCHANGED <<res, extractorVars, helperVars, pluginVars>>

\* the request fails, or the timer fires and aborts it: the await rejects
Rejects ==
    /\ ollama \in {"fetching", "parsing"}
    /\ ollama' = "threw"
    /\ reply' = Str("fetch failed")
    /\ timer' = Undefined
    /\ UNCHANGED <<res, extractorVars, helperVars, pluginVars>>

\* bodies an endpoint answers with
Payload(content) ==
    Obj([choices |-> Arr(<<Obj([message |-> Obj([role |-> Str("assistant"),
                                                  content |-> content])])>>)])

Payloads ==
    <<Payload(Str("The cache misses because keys rotate.")),
      Payload(Str("  Keys rotate hourly.\n")),
      Payload(Str("")),
      Payload(Str(" \n ")),
      Payload(Num(7)),
      Payload(Null),
      Payload(Arr(<<Str("Keys rotate.")>>)),
      Obj([choices |-> Arr(<<Obj([message |-> Obj([role |-> Str("assistant")])])>>)]),
      Obj([choices |-> Arr(<<Obj([text |-> Str("Keys rotate.")])>>)]),
      Obj([choices |-> Arr(<< >>)]),
      Obj([error |-> Str("model not loaded")]),
      Null>>

\* a Response: ok is true for the statuses 200 to 299
Response(status, json) == [ok |-> status \in 200..299, status |-> status, json |-> json]

NextOllama ==
    \/ \E timeoutMs \in {Undefined, Num(0), Num(15000)} : CallOllama(timeoutMs)
    \/ \E status \in {200, 201, 404, 500}, p \in 1..Len(Payloads) :
           Responds(Response(status, Payloads[p]))
    \/ \E status \in {200, 201, 404, 500} : Responds(Response(status, NotJson))
    \/ Parses
    \/ Rejects

SpecOllama == Init /\ [][NextOllama]_vars

\* the strings found under choices[0].message.content of the response body
Texts ==
    IF res = Undefined \/ res.json.k # "object" \/ "choices" \notin DOMAIN res.json.v
    THEN {}
    ELSE LET choices == res.json.v.choices
         IN  IF choices.k # "array" \/ choices.v = << >> \/ choices.v[1].k # "object"
                \/ "message" \notin DOMAIN choices.v[1].v
             THEN {}
             ELSE LET message == choices.v[1].v.message
                  IN  IF message.k # "object" \/ "content" \notin DOMAIN message.v
                         \/ message.v.content.k # "string"
                      THEN {}
                      ELSE {message.v.content.v}

Blank(t) == \A i \in 1..Len(t) : SubSeq(t, i, i) \in {" ", "\t", "\n", "\r"}

\* s is t without the white space at its two ends
TrimOf(t, s) ==
    /\ \E i \in 0..Len(t), j \in 0..Len(t) :
           /\ i <= j
           /\ SubSeq(t, i + 1, j) = s
           /\ Blank(SubSeq(t, 1, i))
           /\ Blank(SubSeq(t, j + 1, Len(t)))
    /\ s # "" => ~Blank(SubSeq(s, 1, 1)) /\ ~Blank(SubSeq(s, Len(s), Len(s)))

\* C12: callOllama returns only on a success status and a content string that
\* is not blank, and then returns that string trimmed, never the empty string;
\* a call that got a response with another status, or without such a content,
\* ends by throwing
ReturnsTextOrThrows ==
    /\ ollama = "returned" =>
           /\ res # Undefined
           /\ res.status \in 200..299
           /\ \E t \in Texts : ~Blank(t) /\ reply.k = "string" /\ TrimOf(t, reply.v)
           /\ reply # Str("")
    /\ (/\ ollama \in {"returned", "threw"}
        /\ res # Undefined
        /\ (res.status \notin 200..299 \/ \A t \in Texts : Blank(t)))
           => ollama = "threw"

\* a content with white space around it came back trimmed
ReturnedTrimmed == ollama = "returned" /\ reply.v \notin Texts

-----------------------------------------------------------------------------
(* normalizeText and stripContextBlocks called as exported                 *)

\* a caller calls the helper of that name with one argument
CallHelper(name, arg) ==
    /\ helper' = [name |-> name, arg |-> arg]
    /\ returned' = Undefined
    /\ UNCHANGED <<extractorVars, reflectVars, pluginVars>>

\* stripContextBlocks(text) returns
StripContextBlocks ==
    /\ helper.name = "stripContextBlocks"
    /\ returned = Undefined
    /\ returned' = Str(stripContextBlocks(helper.arg.v))
    /\ UNCHANGED <<helper, extractorVars, reflectVars, pluginVars>>

\* normalizeText(msg) returns
NormalizeText ==
    /\ helper.name = "normalizeText"
    /\ returned = Undefined
    /\ returned' = Str(normalizeText(helper.arg))
    /\ UNCHANGED <<helper, extractorVars, reflectVars, pluginVars>>

\* texts with injected blocks: what stands before the first header, the
\* header, what the block holds, and what follows it
BlockTexts ==
    [before |-> <<"", "I wonder how the tidal patterns affect terns.\n\n">>,
     header |-> <<"[CONTINUITY CONTEXT]", "[STABILITY CONTEXT]", "[GROWTH VECTORS]",
                  "[MEMORY INTEGRATION]">>,
     inside |-> <<"\nSession: 12\nYou said the cache was cold.\n",
                  " recalled talk about the cache ">>,
     after  |-> <<"",
                  "[STABILITY CONTEXT]\nEntropy: 0.4\n",
                  "[growth vectors]\n- be curious\n[MEMORY INTEGRATION] done",
                  "[MEMORY of last week] They asked why the block ends here.",
                  "[CONTINUITY] notes [GROWTH VECTORS] I wonder what is left.">>]

Text(b, h, i, a) ==
    BlockTexts.before[b] \o BlockTexts.header[h] \o BlockTexts.inside[i] \o BlockTexts.after[a]

\* messages and contents of several shapes
Contents ==
    <<Undefined, Null, Str(""), Str(TERNS), Str("  padded \n"), Num(0), Num(42), Num(-7),
      Obj(<< >>), Obj([text |-> Str(TERNS)]), Arr(<< >>), Arr(<<Str(TERNS)>>),
      Arr(<<Obj([text |-> Str("one")]), Obj([content |-> Str("two")])>>),
      Arr(<<Obj([text |-> Str("one"), content |-> Str("two")]), Null, Undefined,
            Obj([type |-> Str("image")]), Obj([text |-> Str("three")])>>),
      Arr(<<Obj([text |-> Str(""), content |-> Str("two")]), Obj([text |-> Num(5)])>>),
      Arr(<<Num(3), Obj([text |-> Null, content |-> Null])>>)>>

Shapes ==
    <<Undefined, Null, Str(TERNS), Obj(<< >>), Obj([role |-> Str("user")])>>
    \o [c \in 1..Len(Contents) |-> Obj([role |-> Str("user"), content |-> Contents[c]])]

NextHelpers ==
    \/ \E b \in DOMAIN BlockTexts.before, h \in DOMAIN BlockTexts.header,
          i \in DOMAIN BlockTexts.inside, a \in DOMAIN BlockTexts.after :
           CallHelper("stripContextBlocks", Str(Text(b, h, i, a)))
    \/ \E m \in 1..Len(Shapes) : CallHelper("normalizeText", Shapes[m])
    \/ StripContextBlocks
    \/ NormalizeText

SpecHelpers == Init /\ [][NextHelpers]_vars

\* the four recognized headers
Headers ==
    {"[CONTINUITY CONTEXT]", "[STABILITY CONTEXT]", "[GROWTH VECTORS]", "[MEMORY INTEGRATION]"}

\* a recognized header stands at offset i of the text, letter case aside
HeaderAt(text, i) ==
    \E h \in Headers :
        /\ i + Len(h) <= Len(text)
        /\ toLowerCase(SubSeq(text, i + 1, i + Len(h))) = toLowerCase(h)

\* the text that precedes the first recognized header
BeforeHeaders(text) ==
    SubSeq(text, 1, Least({i \in 0..Len(text) : HeaderAt(text, i) \/ i = Len(text)}))

\* C18: stripContextBlocks removes every span from a recognized header to the
\* next one or to the end of the text: the result holds no recognized header
\* and nothing of what follows the first header, and the text that precedes
\* the first header is kept
BlocksRemovedWhole ==
    (helper.name = "stripContextBlocks" /\ returned # Undefined) =>
        /\ \A i \in 0..Len(returned.v) : ~HeaderAt(returned.v, i)
        /\ TrimOf(BeforeHeaders(helper.arg.v), returned.v)

\* the part has something under the field
Has(part, field) ==
    /\ part.k = "object"
    /\ field \in DOMAIN part.v
    /\ part.v[field] \notin {Undefined, Null, Str("")}

\* the text of a part: its text field, else its content field, else nothing
TextOfPart(part) ==
    IF Has(part, "text") THEN StringOf(part.v.text)
    ELSE IF Has(part, "content") THEN StringOf(part.v.content)
    ELSE ""

\* the content of a message, undefined for an absent message or content
ContentOfMessage(msg) ==
    IF msg.k = "object" /\ "content" \in DOMAIN msg.v THEN msg.v.content ELSE Undefined

\* the normalized text of a content
Normalized(content) ==
    CASE content.k = "string" -> content.v
      [] content.k = "array"  ->
             join([k \in 1..Len(content.v) |-> TextOfPart(content.v[k])], " ")
      [] content.k \in {"undefined", "null"} -> ""
      [] OTHER -> StringOf(content)

\* C19: normalizeText returns a string content unchanged, joins the texts of
\* the parts of a sequence with single spaces, returns the string coercion
\* of a content of any other shape, and the empty string for an absent
\* content or message
NormalizedAsSpecified ==
    (helper.name = "normalizeText" /\ returned # Undefined) =>
        returned.v = Normalized(ContentOfMessage(helper.arg))

-----------------------------------------------------------------------------
(* The plugin (index.js): the inquiry store, runOneDuePass,                *)
(* persistCompletedInsights, the heartbeat and session_end hooks and the   *)
(* nightshift task runner.  The agent 'main' is modelled in full; of the   *)
(* other agents in the states Map the model keeps the store, the flag and  *)
(* the task runner, and of their model call its outcome.  The store        *)
(* (lib/inquiry) and the writer (lib/writer) are modelled from their       *)
(* contracts: an inquiry is its number of completed passes and whether it  *)
(* has been persisted; a pass that is not completed is due; a write adds   *)
(* its file or entry, or throws and adds nothing.                          *)

\* store.addInquiry(gap)
addInquiry(st) == Append(st, [done |-> 0, persisted |-> FALSE])

\* store.getDuePass(): the first inquiry with a pass left, 0 for none
getDuePass(st) ==
    IF \A i \in DOMAIN st : st[i].done = PassCount THEN 0
    ELSE CHOOSE i \in DOMAIN st :
             /\ st[i].done < PassCount
             /\ \A j \in 1..(i - 1) : st[j].done = PassCount

\* store.completePass(id, passNumber, output)
completePass(st, id) == [st EXCEPT ![id].done = @ + 1]

\* store.getCompletedUnpersisted()
getCompletedUnpersisted(st) ==
    {i \in DOMAIN st : st[i].done = PassCount /\ ~st[i].persisted}

\* one persistCompletedInsights: for each pending inquiry the call that
\* throws, "none" when both writes and markPersisted go through
Failings(st) ==
    [getCompletedUnpersisted(st) -> {"none", "appendGrowthVector", "writeInsightFile"}]

MarkedWhateverThrows(failing, i) == TRUE

\* the try block reaches store.markPersisted(inquiry.id)
ReachesMarkPersisted(failing, i) == failing[i] = "none"

\* persistCompletedInsights, the store: every pending inquiry is marked
\* persisted, but for those of which a write throws
persistCompletedInsights(st, failing) ==
    [i \in DOMAIN st |->
        IF i \in getCompletedUnpersisted(st) /\ ReachesMarkPersisted(failing, i)
        THEN [st[i] EXCEPT !.persisted = TRUE] ELSE st[i]]

\* persistCompletedInsights, the files: writer.appendGrowthVector, then
\* writer.writeInsightFile, each reached when nothing has thrown before it;
\* the log line of the try block or of the catch block
Written(fs, st, failing) ==
    [i \in DOMAIN fs |->
        IF i \in getCompletedUnpersisted(st)
        THEN [vector  |-> fs[i].vector \/ failing[i] # "appendGrowthVector",
              insight |-> fs[i].insight \/ failing[i] = "none",
              logged  |-> IF failing[i] = "none" THEN "persisted" ELSE "failed"]
        ELSE fs[i]]

\* runOneDuePass after a pass that returned: completePass, and the persist
\* when the inquiry is completed by it
Completed(st, id, failing) ==
    IF completePass(st, id)[id].done = PassCount
    THEN persistCompletedInsights(completePass(st, id), failing)
    ELSE completePass(st, id)

\* the files after that persist
CompletedFiles(fs, st, id, failing) ==
    IF completePass(st, id)[id].done = PassCount
    THEN Written(fs, completePass(st, id), failing)
    ELSE fs

\* what runOneDuePass has done after a pass that returned
CompletedTrace(st, id, queueTask) ==
    <<"completePass">>
    \o (IF completePass(st, id)[id].done = PassCount THEN <<"persist">> ELSE << >>)
    \o (IF queueTask THEN <<"queueTask">> ELSE << >>)
    \o <<"true">>

SkipsOutsideHoursOnly(ns) == ns.isInOfficeHours = "no"

\* the two early returns of the heartbeat hook
Skips(ns) == ns.isInOfficeHours = "no" \/ ns.isUserActive = "yes"

NeverInFlight(flag) == FALSE

\* runOneDuePass: if (state.processing) return false
InFlight(flag) == flag

StaysSet(flag) == flag

\* runOneDuePass: finally { state.processing = false }
Finally(flag) == FALSE

\* what runOneDuePass has done when it returns false before its try block
Refused(flag) ==
    IF InFlight(flag) THEN <<"false">> ELSE <<"getDuePass", "false">>

\* the agent_end hook adds the inquiry of a gap and queues a task
AddInquiry(queueTask) ==
    /\ Len(store) < MaxInquiries
    /\ store' = addInquiry(store)
    /\ queued' = IF queueTask /\ queued < MaxTasks THEN queued + 1 ELSE queued
    /\ UNCHANGED <<processing, hook, states, files, extractorVars, reflectVars, helperVars>>

\* runOneDuePass up to its await, called by handler p: false at once when a
\* pass is in flight or none is due, else the pass is started
StartPass(p, ns) ==
    /\ ~InFlight(processing)
    /\ getDuePass(store) # 0
    /\ processing' = TRUE
    /\ hook' = [hook EXCEPT ![p] = [at |-> "awaiting", ns |-> ns, due |-> getDuePass(store),
                                    trace |-> <<"getDuePass", "runPass">>]]
    /\ StartOllama(Num(DefaultTimeoutMs))

\* the heartbeat hook, to its end or to the await of the pass
Heartbeat(ns) ==
    /\ hook.heartbeat.at # "awaiting"
    /\ IF Skips(ns)
       THEN /\ hook' = [hook EXCEPT !.heartbeat = [Resting EXCEPT !.at = "done", !.ns = ns]]
            /\ UNCHANGED <<store, files, processing, reflectVars>>
       ELSE IF InFlight(processing) \/ getDuePass(store) = 0
       THEN /\ hook' = [hook EXCEPT !.heartbeat =
                           [Resting EXCEPT !.at = "done", !.ns = ns,
                                           !.trace = Refused(processing) \o <<"persist">>]]
            /\ \E failing \in Failings(store) :
                   /\ store' = persistCompletedInsights(store, failing)
                   /\ files' = Written(files, store, failing)
            /\ UNCHANGED <<processing, reflectVars>>
       ELSE /\ StartPass("heartbeat", ns)
            /\ UNCHANGED <<store, files>>
    /\ UNCHANGED <<queued, states, extractorVars, helperVars>>

\* nightshift runs a queued task: the task runner calls runOneDuePass
NightshiftTask ==
    /\ queued > 0
    /\ hook.task.at # "awaiting"
    /\ queued' = queued - 1
    /\ IF InFlight(processing) \/ getDuePass(store) = 0
       THEN /\ hook' = [hook EXCEPT !.task =
                           [Resting EXCEPT !.at = "done",
                                           !.ns = Nightshift("none", "none", TRUE),
                                           !.trace = Refused(processing)]]
            /\ UNCHANGED <<processing, reflectVars>>
       ELSE StartPass("task", Nightshift("none", "none", TRUE))
    /\ UNCHANGED <<store, files, states, extractorVars, helperVars>>

RunPassSettled == ollama \in {"returned", "threw"}

\* await reflect.runPass(...) yields the output: the model call has returned
RunPassReturned == ollama = "returned"

\* the pass awaited by handler p has returned: runOneDuePass completes the
\* pass and queues a task; the heartbeat hook then persists
PassReturns(p) ==
    /\ hook[p].at = "awaiting"
    /\ RunPassReturned
    /\ processing' = Finally(processing)
    /\ \E failing \in Failings(completePass(store, hook[p].due)) :
           IF p = "heartbeat"
           THEN \E failingAfter \in Failings(Completed(store, hook[p].due, failing)) :
                    /\ store' = persistCompletedInsights(Completed(store, hook[p].due, failing),
                                                         failingAfter)
                    /\ files' = Written(CompletedFiles(files, store, hook[p].due, failing),
                                        Completed(store, hook[p].due, failing), failingAfter)
           ELSE /\ store' = Completed(store, hook[p].due, failing)
                /\ files' = CompletedFiles(files, store, hook[p].due, failing)
    /\ queued' = IF hook[p].ns.queueTask /\ queued < MaxTasks THEN queued + 1 ELSE queued
    /\ hook' = [hook EXCEPT ![p].at = "done",
                            ![p].trace = @ \o CompletedTrace(store, hook[p].due, hook[p].ns.queueTask)
                                           \o (IF p = "heartbeat" THEN <<"persist">> ELSE << >>)]
    /\ NoCall
    /\ UNCHANGED <<states, extractorVars, helperVars>>

\* runOneDuePass: catch (err) { log; return false }
Caught == <<"false">>

\* the heartbeat hook goes on after runOneDuePass: persistCompletedInsights;
\* the task runner is at its end
AfterPass(p) ==
    IF p = "heartbeat"
    THEN \E failing \in Failings(store) :
             /\ store' = persistCompletedInsights(store, failing)
             /\ files' = Written(files, store, failing)
    ELSE UNCHANGED <<store, files>>

\* the pass awaited by handler p has thrown: runOneDuePass logs and returns
\* false, the store as it was; the heartbeat hook then persists
PassThrows(p) ==
    /\ hook[p].at = "awaiting"
    /\ ollama = "threw"
    /\ processing' = Finally(processing)
    /\ AfterPass(p)
    /\ hook' = [hook EXCEPT ![p].at = "done",
                            ![p].trace = @ \o Caught
                                           \o (IF p = "heartbeat" THEN <<"persist">> ELSE << >>)]
    /\ NoCall
    /\ UNCHANGED <<queued, states, extractorVars, helperVars>>

\* the pass awaited by handler p has returned and store.completePass throws:
\* the catch block, and the heartbeat hook then persists
CompletePassThrows(p) ==
    /\ hook[p].at = "awaiting"
    /\ RunPassReturned
    /\ processing' = Finally(processing)
    /\ AfterPass(p)
    /\ hook' = [hook EXCEPT ![p].at = "done",
                            ![p].trace = @ \o <<"completePass">> \o Caught
                                           \o (IF p = "heartbeat" THEN <<"persist">> ELSE << >>)]
    /\ NoCall
    /\ UNCHANGED <<queued, states, extractorVars, helperVars>>

\* the session_end hook
SessionEnd ==
    /\ \E failing \in Failings(store) :
           /\ store' = persistCompletedInsights(store, failing)
           /\ files' = Written(files, store, failing)
    /\ UNCHANGED <<processing, hook, queued, states, extractorVars, reflectVars, helperVars>>

\* what nightshift answers a heartbeat; without nightshift there is no queueTask
Nightshifts ==
    {Nightshift("none", "none", FALSE), Nightshift("none", "none", TRUE),
     Nightshift("yes", "no", TRUE), Nightshift("no", "no", TRUE),
     Nightshift("yes", "yes", TRUE), Nightshift("none", "yes", TRUE)}

NextPlugin ==
    \/ \E queueTask \in BOOLEAN : AddInquiry(queueTask)
    \/ \E ns \in Nightshifts : Heartbeat(ns)
    \/ NightshiftTask
    \/ \E p \in {"heartbeat", "task"} : PassReturns(p)
    \/ \E p \in {"heartbeat", "task"} : PassThrows(p)
    \/ \E p \in {"heartbeat", "task"} : CompletePassThrows(p)
    \/ SessionEnd
    \/ Responds(Response(200, Payloads[1]))
    \/ Responds(Response(200, Payloads[4]))
    \/ Responds(Response(500, Payloads[11]))
    \/ Parses
    \/ Rejects

SpecPlugin == Init /\ [][NextPlugin]_vars

\* nightshift said that the agent is outside office hours or the user active
HeldBack(ns) == ns.isInOfficeHours = "no" \/ ns.isUserActive = "yes"

\* the passes started in a trace
PassesIn(trace) == {k \in DOMAIN trace : trace[k] = "runPass"}

\* C20: a heartbeat that nightshift holds back (outside office hours, or the
\* user active) runs no pass and persists nothing: it ends with the store,
\* the files, the processing flag and the model call as they were; any other
\* heartbeat starts at most one pass, and none after it has persisted, and
\* when it ends it has persisted the completed inquiries as its last act
HeartbeatGate ==
    [][hook'.heartbeat # hook.heartbeat =>
          IF HeldBack(hook'.heartbeat.ns)
          THEN /\ hook'.heartbeat.at = "done"
               /\ hook'.heartbeat.trace = << >>
               /\ store' = store
               /\ files' = files
               /\ processing' = processing
               /\ reflectVars' = reflectVars
          ELSE /\ Cardinality(PassesIn(hook'.heartbeat.trace)) <= 1
               /\ hook'.heartbeat.at = "awaiting" =>
                      hook'.heartbeat.trace = <<"getDuePass", "runPass">> /\ ollama' = "fetching"
               /\ hook'.heartbeat.at = "done" =>
                      /\ hook'.heartbeat.trace # << >>
                      /\ hook'.heartbeat.trace[Len(hook'.heartbeat.trace)] = "persist"
                      /\ \A k \in PassesIn(hook'.heartbeat.trace) :
                             \A j \in 1..k : hook'.heartbeat.trace[j] # "persist"
                      /\ ollama' # "fetching" \/ ollama = "fetching"]_vars

\* a heartbeat was held back while a pass was due and a completed inquiry
\* was waiting to be persisted
HeldBackWithWorkToDo ==
    /\ hook.heartbeat.at = "done"
    /\ HeldBack(hook.heartbeat.ns)
    /\ ~processing
    /\ getDuePass(store) # 0
    /\ getCompletedUnpersisted(store) # {}

-----------------------------------------------------------------------------
(* Two agents: the handlers of 'main' and the task runner of another agent  *)

\* the agent_end hook of another agent adds an inquiry
AddInquiryOf(a) ==
    /\ states[a].store = << >>
    /\ states' = [states EXCEPT ![a].store = addInquiry(states[a].store)]
    /\ UNCHANGED <<store, processing, hook, queued, files, extractorVars, reflectVars, helperVars>>

\* nightshift runs a task of another agent: runOneDuePass returns false at
\* once or starts the pass
TaskOf(a) ==
    /\ states[a].at # "awaiting"
    /\ states' = [states EXCEPT ![a] =
                     IF InFlight(states[a].processing) \/ getDuePass(states[a].store) = 0
                     THEN [states[a] EXCEPT !.at = "done", !.due = 0,
                                            !.trace = Refused(states[a].processing)]
                     ELSE [states[a] EXCEPT !.at = "awaiting", !.processing = TRUE,
                                            !.due = getDuePass(states[a].store),
                                            !.trace = <<"getDuePass", "runPass">>]]
    /\ UNCHANGED <<store, processing, hook, queued, files, extractorVars, reflectVars, helperVars>>

\* the pass of another agent returns (ok) or throws: the rest of runOneDuePass
PassOf(a, ok) ==
    /\ states[a].at = "awaiting"
    /\ states' = [states EXCEPT ![a] =
                     [states[a] EXCEPT
                          !.at = "done", !.processing = Finally(states[a].processing),
                          !.store = IF ok THEN completePass(states[a].store, states[a].due)
                                    ELSE states[a].store,
                          !.trace = states[a].trace
                                    \o (IF ok THEN <<"completePass", "true">> ELSE Caught)]]
    /\ UNCHANGED <<store, processing, hook, queued, files, extractorVars, reflectVars, helperVars>>

NextAgents ==
    \/ AddInquiry(TRUE)
    \/ Heartbeat(Nightshift("yes", "no", TRUE))
    \/ NightshiftTask
    \/ \E p \in {"heartbeat", "task"} : PassReturns(p)
    \/ \E p \in {"heartbeat", "task"} : PassThrows(p)
    \/ Responds(Response(200, Payloads[1]))
    \/ Rejects
    \/ Parses
    \/ \E a \in OtherAgents : AddInquiryOf(a)
    \/ \E a \in OtherAgents : TaskOf(a)
    \/ \E a \in OtherAgents, ok \in BOOLEAN : PassOf(a, ok)

SpecAgents == Init /\ [][NextAgents]_vars

\* the handlers of 'main' that await reflect.runPass
Awaiting == {p \in DOMAIN hook : hook[p].at = "awaiting"}

\* per agent one pass at most is in flight, and the flag is set while it is
OneInFlight ==
    /\ Cardinality(Awaiting) <= 1
    /\ processing <=> Awaiting # {}
    /\ ollama # "idle" => Awaiting # {}
    /\ \A a \in OtherAgents : states[a].processing <=> states[a].at = "awaiting"

\* handler p of 'main' calls runOneDuePass in this step
Calls(p) == hook[p].at # "awaiting" /\ hook'[p] # hook[p] /\ hook'[p].trace # << >>

\* the task runner of agent a calls runOneDuePass in this step
CallsOf(a) ==
    states[a].at # "awaiting" /\ states'[a] # states[a] /\ states'[a].store = states[a].store

\* a call for 'main' while a pass of 'main' is awaited returns false at once
RefusedWhileAwaited ==
    \A p \in DOMAIN hook :
        Calls(p) /\ Awaiting # {} =>
            /\ hook'[p].at = "done"
            /\ hook'[p].trace \in {<<"false">>, <<"false", "persist">>}
            /\ reflectVars' = reflectVars
            /\ processing' = processing
            /\ \A i \in DOMAIN store : store'[i].done = store[i].done

\* whether a call starts a pass rests on the flag and the store of its own agent
AgentsApart ==
    /\ \A p \in DOMAIN hook :
           Calls(p) => /\ hook'[p].at = "awaiting" <=> ~processing /\ getDuePass(store) # 0
                       /\ states' = states
    /\ \A a \in OtherAgents :
           CallsOf(a) => /\ states'[a].at = "awaiting" <=>
                                ~states[a].processing /\ getDuePass(states[a].store) # 0
                         /\ UNCHANGED <<store, processing, hook, reflectVars>>

\* C21: per agent at most one reflection pass is in flight: while a call of
\* runOneDuePass awaits reflect.runPass, every other call for the same agent
\* returns false without getDuePass, without a model call and without
\* completing a pass; a call for one agent starts its pass whether or not a
\* pass of another agent is in flight
OnePassPerAgent == []OneInFlight /\ [][RefusedWhileAwaited /\ AgentsApart]_vars

\* the heartbeat of 'main' awaits its pass, a task of 'main' has been refused
\* meanwhile, and the pass of another agent is in flight too
RefusedBesideAnotherAgent ==
    /\ hook.heartbeat.at = "awaiting"
    /\ hook.task.at = "done"
    /\ hook.task.trace = <<"false">>
    /\ states.scout.at = "awaiting"

-----------------------------------------------------------------------------
(* The release of the processing flag                                      *)

\* a handler of 'main' goes on after its await of reflect.runPass
Resumes == \E p \in {"heartbeat", "task"} : PassReturns(p) \/ PassThrows(p) \/ CompletePassThrows(p)

\* the triggers of a pass and what a pass can end in: nightshift is there and
\* holds no heartbeat back
NextRelease ==
    \/ AddInquiry(TRUE)
    \/ Heartbeat(Nightshift("yes", "no", TRUE))
    \/ NightshiftTask
    \/ \E p \in {"heartbeat", "task"} : PassReturns(p)
    \/ \E p \in {"heartbeat", "task"} : PassThrows(p)
    \/ \E p \in {"heartbeat", "task"} : CompletePassThrows(p)
    \/ SessionEnd
    \/ Responds(Response(200, Payloads[1]))
    \/ Responds(Response(200, Payloads[4]))
    \/ Responds(Response(500, Payloads[11]))
    \/ Parses
    \/ Rejects

\* the abort timer of callOllama fires when nothing settles the request
\* before it, and a function whose await has settled goes on
SpecRelease == Init /\ [][NextRelease]_vars /\ WF_vars(Rejects) /\ WF_vars(Resumes)

\* the call of runOneDuePass by handler p finishes in this step
Finishes(p) == hook[p].at = "awaiting" /\ hook'[p].at = "done"

\* C22: the processing flag is always released: a call of runOneDuePass that
\* set the flag clears it in the step in which it finishes, whether the pass
\* returned, the model call failed or was aborted by its timer, or
\* completePass or a write threw; and a flag that is set is cleared in the end
FlagReleased ==
    /\ [][\A p \in DOMAIN hook : Finishes(p) => processing /\ ~processing']_vars
    /\ (processing ~> ~processing)

\* the pass of a task was aborted or failed, and a later heartbeat has
\* started a pass
PassStartedAfterFailure ==
    /\ hook.task.at = "done"
    /\ hook.task.trace = <<"getDuePass", "runPass", "false">>
    /\ hook.heartbeat.at = "awaiting"
    /\ processing

-----------------------------------------------------------------------------
(* A pass whose model call fails                                           *)

\* what handler p has done when the pass it awaited has failed
TraceOfFailure(p) ==
    <<"getDuePass", "runPass", "false">> \o (IF p = "heartbeat" THEN <<"persist">> ELSE << >>)

\* C23: a pass is completed only in a step that finds the model call returned
\* with a text that is not blank; when reflect.runPass has failed,
\* runOneDuePass calls neither completePass nor persistCompletedInsights nor
\* queueTask and returns false, no inquiry gains a completed pass, and the
\* pass that was due is still the due pass
FailedPassStaysDue ==
    [][/\ (\E i \in DOMAIN store : store'[i].done # store[i].done) =>
              ollama = "returned" /\ reply.k = "string" /\ ~Blank(reply.v)
       /\ \A p \in DOMAIN hook :
              Finishes(p) /\ ollama = "threw" =>
                  /\ hook'[p].trace = TraceOfFailure(p)
                  /\ \A i \in DOMAIN store : store'[i].done = store[i].done
                  /\ queued' = queued
                  /\ getDuePass(store') = hook[p].due
                  /\ p = "task" => store' = store /\ files' = files]_vars

\* the pass of a heartbeat has failed, and the second pass of the inquiry is
\* still due
SecondPassStillDue ==
    /\ hook.heartbeat.at = "done"
    /\ hook.heartbeat.trace = TraceOfFailure("heartbeat")
    /\ getDuePass(store) = hook.heartbeat.due
    /\ store[hook.heartbeat.due].done = 1

-----------------------------------------------------------------------------
(* Persisting completed inquiries                                          *)

\* the inquiries a persistCompletedInsights of this step finds pending
PendingNow == {i \in DOMAIN store : store'[i].done = PassCount /\ ~store[i].persisted}

\* persistCompletedInsights has run in this step: an inquiry is marked, a
\* file or a log line is new, or the heartbeat hook has reached its end
Persists ==
    \/ \E i \in PendingNow : store'[i].persisted \/ files'[i] # files[i]
    \/ /\ hook'.heartbeat # hook.heartbeat
       /\ hook'.heartbeat.at = "done"
       /\ hook'.heartbeat.trace # << >>

\* an inquiry is marked persisted only when its growth vector and its
\* insight file are written; one of which a write threw is still reported as
\* completed and not persisted
PersistedMeansWritten ==
    \A i \in DOMAIN store :
        /\ store[i].persisted =>
               /\ store[i].done = PassCount
               /\ files[i].vector /\ files[i].insight
               /\ files[i].logged = "persisted"
        /\ files[i].logged = "failed" =>
               i \in getCompletedUnpersisted(store) /\ ~files[i].insight

\* C24: an inquiry is marked persisted only after its growth-vector entry
\* and its insight file have both been written without error; an inquiry of
\* which a write threw stays completed and not persisted, and every run of
\* persistCompletedInsights (heartbeat, session_end, runOneDuePass) takes up
\* every pending inquiry, those that failed before and those after one that
\* fails in this run: each is marked persisted or logged as failed
PersistedAfterBothWrites ==
    /\ []PersistedMeansWritten
    /\ [][Persists => \A i \in PendingNow :
                          \/ store'[i].persisted /\ files'[i].vector /\ files'[i].insight
                          \/ ~store'[i].persisted /\ files'[i].logged = "failed"]_vars

\* the insight file of the first inquiry could not be written, its growth
\* vector could; the second inquiry, completed later, is persisted
LaterInquiryPersisted ==
    /\ Len(store) = 2
    /\ 1 \in getCompletedUnpersisted(store)
    /\ files[1].vector /\ ~files[1].insight /\ files[1].logged = "failed"
    /\ store[2].persisted

=============================================================================
